---- MODULE Spec2Model ----
(***************************************************************************)
(* winding-tree-server: user registration, cookie-session login and the    *)
(* protected whoami endpoint (internal/apiserver/server.go), the lazily    *)
(* created repository of the SQL store (sqlstore.Store.User) and the       *)
(* request pipeline set up by configureRouter.                             *)
(*                                                                         *)
(* Every request is served by its own goroutine; a goroutine is a process  *)
(* p \in Procs whose position in the pipeline is pc[p].  A step is atomic  *)
(* up to the next access of state shared between goroutines (the store's   *)
(* userRepository field, the users table).                                 *)
(*                                                                         *)
(* Requests are well-formed JSON bodies {email, password} sent without an  *)
(* Origin header (the CORS middleware lets them pass), to the three        *)
(* registered routes.                                                      *)
(***************************************************************************)
EXTENDS Integers, Sequences, FiniteSets, TLC

(* ---------------------------- bounds ----------------------------------- *)

\* requests the server receives in one behaviour
MaxRequests == 4

\* goroutines serving requests at the same time
Procs == {1, 2}

Emails == {"u@d", "v@d", "ud"}
Passwords == {"short", "secret", "secretx"}
\* the salts the hash function may draw
Salts == {"s1"}

(* ------------------------- program constants --------------------------- *)

StatusOK == 200
StatusBadRequest == 400
StatusUnauthorized == 401
StatusInternalServerError == 500

errIncorrectEmailOrPassword == "incorrect email or password"
errInternalServerError == "internal server error"
errNotAuthenticated == "not authenticated"
errBadRequest == "bad request"

\* Config.SessionKey is never set: NewConfig leaves it the empty string and
\* main does not decode the config file.
SessionKey == ""

\* shortest password Validate accepts
MinPasswordLength == 6

(* ------------------------------ model.User ----------------------------- *)

NoUser == [id |-> 0, email |-> "", password |-> "", encrypted_password |-> ""]

\* email-address syntax: one "@" with something on both sides
IsEmail(e) ==
  \E i \in 2..(Len(e) - 1) :
    /\ SubSeq(e, i, i) = "@"
    /\ \A j \in 1..Len(e) : j # i => SubSeq(e, j, j) # "@"

Validate(usr) ==
  /\ usr.email # ""
  /\ IsEmail(usr.email)
  /\ usr.encrypted_password = "" =>
       (usr.password # "" /\ Len(usr.password) >= MinPasswordLength)

\* a salted digest: the salt is part of the digest, as in bcrypt
EncryptString(salt, plain) == salt \o "$" \o plain

BeforeCreate(usr, salt) ==
  IF usr.password # ""
    THEN [usr EXCEPT !.encrypted_password = EncryptString(salt, usr.password)]
    ELSE usr

Sanitize(usr) == [usr EXCEPT !.password = ""]

\* recompute the digest of the candidate under the digest's own salt
ComparePasswords(usr, candidate) ==
  \E salt \in Salts : usr.encrypted_password = EncryptString(salt, candidate)

(* --------------------- sqlstore.UserRepository ------------------------- *)
\* The users table is a sequence of rows [email, encrypted_password]; a
\* row's id is its position (ids are assigned in insertion order and no row
\* is ever deleted).

TableEmails(tbl) == {tbl[i].email : i \in 1..Len(tbl)}

\* Create: validation, password derivation, one INSERT under the table's
\* UNIQUE(email) constraint.  Result: the error, the user struct as the
\* caller sees it afterwards, and the table.
Create(usr, tbl, salt) ==
  IF ~Validate(usr)
    THEN [err |-> "validation", u |-> usr, users |-> tbl]
    ELSE LET hashed == BeforeCreate(usr, salt) IN
         IF hashed.email \in TableEmails(tbl)
           THEN [err |-> "conflict", u |-> hashed, users |-> tbl]
           ELSE [err |-> "",
                 u |-> [hashed EXCEPT !.id = Len(tbl) + 1],
                 users |-> Append(tbl, [email |-> hashed.email,
                                        encrypted_password |-> hashed.encrypted_password])]

RowUser(tbl, i) ==
  [id |-> i, email |-> tbl[i].email, password |-> "",
   encrypted_password |-> tbl[i].encrypted_password]

Find(id, tbl) ==
  IF id \in 1..Len(tbl)
    THEN [err |-> "", u |-> RowUser(tbl, id)]
    ELSE [err |-> "not found", u |-> NoUser]

FindByEmail(email, tbl) ==
  IF \E i \in 1..Len(tbl) : tbl[i].email = email
    THEN [err |-> "", u |-> RowUser(tbl, CHOOSE i \in 1..Len(tbl) : tbl[i].email = email)]
    ELSE [err |-> "not found", u |-> NoUser]

(* --------------------------- session store ----------------------------- *)
\* The cookie store built in Start: a session's Values travel in the cookie
\* itself, authenticated by a MAC under the session key.

EmptyValues == [k \in {} |-> 0]

\* the MAC of a payload, as a term: only the holder of the key builds it
Mac(key, payload) == [key |-> key, over |-> payload]

NoCookie == [present |-> FALSE, payload |-> EmptyValues, mac |-> Mac("", EmptyValues)]

\* Save: the cookie attached to the response
Encode(values) == [present |-> TRUE, payload |-> values, mac |-> Mac(SessionKey, values)]

\* Get: a new, empty session when the request has no cookie; the cookie's
\* Values when its MAC verifies; an error (with a new session) otherwise
Get(cookie) ==
  IF ~cookie.present THEN [err |-> FALSE, values |-> EmptyValues]
  ELSE IF cookie.mac = Mac(SessionKey, cookie.payload)
         THEN [err |-> FALSE, values |-> cookie.payload]
         ELSE [err |-> TRUE, values |-> EmptyValues]

\* one byte of a cookie changed: in the payload, or in the MAC
TamperKinds == {"payload", "mac"}
Tamper(cookie, kind) ==
  IF kind = "payload"
    THEN [cookie EXCEPT !.payload = [k \in DOMAIN cookie.payload |-> cookie.payload[k] + 1]]
    ELSE [cookie EXCEPT !.mac = [key |-> "?", over |-> cookie.payload]]

(* ------------------------------- state --------------------------------- *)

VARIABLES
  users,           \* the users table of the database
  userRepository,  \* Store.userRepository: 0 is nil, else the instance
                   \* (instances are numbered as they are allocated)
  writes,          \* history: how often Store.userRepository was assigned
  returned,        \* history: the instances Store.User() has returned
  jar,             \* the session cookies clients hold, each with the
                   \* credentials of the login that was answered with it
  nreq,            \* requests received so far
  pc,              \* where each goroutine is in the pipeline
  req,             \* the request it serves
  hdr,             \* the response headers set so far
  uid,             \* the user_id AuthenticationUser read from the session
  u,               \* the *model.User the handler holds
  resp             \* the response written (status 0: none yet)

vars == <<users, userRepository, writes, returned, jar, nreq,
          pc, req, hdr, uid, u, resp>>

NoRequest ==
  [kind |-> "", email |-> "", password |-> "", cookie |-> NoCookie,
   seenRow |-> FALSE]

NoResponse ==
  [status |-> 0, body |-> EmptyValues, cookie |-> NoCookie, headers |-> {},
   ran |-> ""]

ErrorBody(message) == [error |-> message]

Init ==
  /\ users = <<>>
  /\ userRepository = 0
  /\ writes = 0
  /\ returned = {}
  /\ jar = {}
  /\ nreq = 0
  /\ pc = [p \in Procs |-> "idle"]
  /\ req = [p \in Procs |-> NoRequest]
  /\ hdr = [p \in Procs |-> {}]
  /\ uid = [p \in Procs |-> 0]
  /\ u = [p \in Procs |-> NoUser]
  /\ resp = [p \in Procs |-> NoResponse]

(* ------------------------------ requests ------------------------------- *)

\* the cookies a client can send: none, one a login handed out, or such a
\* cookie with one byte changed.  A client does not compute the MAC of a
\* payload of its own choice (the MAC is taken to be unforgeable, whatever
\* the session key is).
ClientCookies ==
  {NoCookie} \cup {j.cookie : j \in jar}
             \cup {Tamper(j.cookie, k) : j \in jar, k \in TamperKinds}

Requests ==
  {[kind |-> "POST /users", email |-> e, password |-> pw, cookie |-> NoCookie,
    seenRow |-> e \in TableEmails(users)] : e \in Emails, pw \in Passwords}
  \cup
  {[kind |-> "POST /sessions", email |-> e, password |-> pw, cookie |-> c,
    seenRow |-> FALSE] :
      e \in Emails, pw \in Passwords, c \in ClientCookies}
  \cup
  {[kind |-> "GET /private/whoami", email |-> "", password |-> "", cookie |-> c,
    seenRow |-> FALSE] : c \in ClientCookies}

\* ServeHTTP returns: the response has gone out and the goroutine ends
Return(p) ==
  /\ pc[p] = "done"
  /\ pc' = [pc EXCEPT ![p] = "idle"]
  /\ req' = [req EXCEPT ![p] = NoRequest]
  /\ hdr' = [hdr EXCEPT ![p] = {}]
  /\ uid' = [uid EXCEPT ![p] = 0]
  /\ u' = [u EXCEPT ![p] = NoUser]
  /\ resp' = [resp EXCEPT ![p] = NoResponse]
  /\ UNCHANGED <<users, userRepository, writes, returned, jar, nreq>>

(* ------------------------------ pipeline ------------------------------- *)

\* what follows the global middleware on each route (configureRouter)
Route(kind) ==
  IF kind = "GET /private/whoami" THEN "AuthenticationUser" ELSE "User"

\* the response as it is written: the headers set so far go with it
Written(p, status, body, cookie, ran) ==
  [status |-> status, body |-> body, cookie |-> cookie, headers |-> hdr[p],
   ran |-> ran]

\* respondWithError: abort the chain with a JSON error
respondWithError(p, code, message) ==
  Written(p, code, ErrorBody(message), NoCookie, "")

\* SetRequestID with the header forgotten: the identifier only goes into the
\* request context
SetRequestID_NoHeader(p) ==
  /\ pc[p] = "idle"
  /\ nreq < MaxRequests
  /\ \E r \in Requests : req' = [req EXCEPT ![p] = r]
  /\ nreq' = nreq + 1
  /\ pc' = [pc EXCEPT ![p] = Route(req'[p].kind)]
  /\ UNCHANGED <<users, userRepository, writes, returned, jar, hdr, uid, u, resp>>

\* ServeHTTP hands a request to the router, and SetRequestID, the first
\* middleware of every route, sets the X-Request-ID header (to a random
\* identifier, of which only the presence is kept); the route's chain follows
SetRequestID(p) ==
  /\ pc[p] = "idle"
  /\ nreq < MaxRequests
  /\ \E r \in Requests : req' = [req EXCEPT ![p] = r]
  /\ nreq' = nreq + 1
  /\ hdr' = [hdr EXCEPT ![p] = hdr[p] \cup {"X-Request-ID"}]
  /\ pc' = [pc EXCEPT ![p] = Route(req'[p].kind)]
  /\ UNCHANGED <<users, userRepository, writes, returned, jar, uid, u, resp>>

\* AuthenticationUser, up to the repository lookup
AuthenticationUser(p) ==
  /\ pc[p] = "AuthenticationUser"
  /\ LET session == Get(req[p].cookie) IN
       IF session.err
         THEN /\ resp' = [resp EXCEPT ![p] =
                   respondWithError(p, StatusInternalServerError, errInternalServerError)]
              /\ pc' = [pc EXCEPT ![p] = "done"]
              /\ uid' = uid
       ELSE IF "user_id" \notin DOMAIN session.values
         THEN /\ resp' = [resp EXCEPT ![p] =
                   respondWithError(p, StatusUnauthorized, errNotAuthenticated)]
              /\ pc' = [pc EXCEPT ![p] = "done"]
              /\ uid' = uid
       ELSE /\ uid' = [uid EXCEPT ![p] = session.values.user_id]
            /\ pc' = [pc EXCEPT ![p] = "User"]
            /\ resp' = resp
  /\ UNCHANGED <<users, userRepository, writes, returned, jar, nreq, req, hdr, u>>

(* ----------------------------- Store.User ------------------------------ *)

AfterUser(kind) ==
  IF kind = "POST /users" THEN "handleUsersCreate"
  ELSE IF kind = "POST /sessions" THEN "handleSessionsCreate"
  ELSE "Find"

\* if s.userRepository != nil { return s.userRepository }
UserCheck(p) ==
  /\ pc[p] = "User"
  /\ IF userRepository # 0
       THEN /\ returned' = returned \cup {userRepository}
            /\ pc' = [pc EXCEPT ![p] = AfterUser(req[p].kind)]
       ELSE /\ pc' = [pc EXCEPT ![p] = "UserAssign"]
            /\ returned' = returned
  /\ UNCHANGED <<users, userRepository, writes, jar, nreq, req, hdr, uid, u, resp>>

\* s.userRepository = &UserRepository{store: s}: a new instance
UserAssign(p) ==
  /\ pc[p] = "UserAssign"
  /\ userRepository' = writes + 1
  /\ writes' = writes + 1
  /\ pc' = [pc EXCEPT ![p] = "UserReturn"]
  /\ UNCHANGED <<users, returned, jar, nreq, req, hdr, uid, u, resp>>

\* return s.userRepository: the field is read again
UserReturn(p) ==
  /\ pc[p] = "UserReturn"
  /\ returned' = returned \cup {userRepository}
  /\ pc' = [pc EXCEPT ![p] = AfterUser(req[p].kind)]
  /\ UNCHANGED <<users, userRepository, writes, jar, nreq, req, hdr, uid, u, resp>>

(* ------------------------------ handlers ------------------------------- *)

\* c.BindJSON(&u): the body's email and password
Bind(request) ==
  [NoUser EXCEPT !.email = request.email, !.password = request.password]

\* handleUsersCreate with Create's error ignored
UsersCreateOutcome_IgnoreErr(p, created) ==
  LET sanitized == Sanitize(created.u) IN
  [u |-> sanitized,
   resp |-> Written(p, StatusOK,
                    [email |-> sanitized.email,
                     encrypted_password |-> sanitized.encrypted_password],
                    NoCookie, "handleUsersCreate")]

\* handleUsersCreate answering Create's error as an internal error
UsersCreateOutcome_Status500(p, created) ==
  IF created.err # ""
    THEN [u |-> created.u,
          resp |-> respondWithError(p, StatusInternalServerError, errInternalServerError)]
    ELSE LET sanitized == Sanitize(created.u) IN
         [u |-> sanitized,
          resp |-> Written(p, StatusOK,
                           [email |-> sanitized.email,
                            encrypted_password |-> sanitized.encrypted_password],
                           NoCookie, "handleUsersCreate")]

\* handleUsersCreate without the call of Sanitize
UsersCreateOutcome_NoSanitize(p, created) ==
  IF created.err # ""
    THEN [u |-> created.u,
          resp |-> respondWithError(p, StatusBadRequest, errBadRequest)]
    ELSE [u |-> created.u,
          resp |-> Written(p, StatusOK,
                           [email |-> created.u.email,
                            encrypted_password |-> created.u.encrypted_password],
                           NoCookie, "handleUsersCreate")]

\* handleUsersCreate after Create returned: the struct the handler holds
\* when the response is serialized, and the response
UsersCreateOutcome(p, created) ==
  IF created.err # ""
    THEN [u |-> created.u,
          resp |-> respondWithError(p, StatusBadRequest, errBadRequest)]
    ELSE LET sanitized == Sanitize(created.u) IN
         [u |-> sanitized,
          resp |-> Written(p, StatusOK,
                           [email |-> sanitized.email,
                            encrypted_password |-> sanitized.encrypted_password],
                           NoCookie, "handleUsersCreate")]

handleUsersCreate(p) ==
  /\ pc[p] = "handleUsersCreate"
  /\ \E salt \in Salts :
       LET created == Create(Bind(req[p]), users, salt)
           out == UsersCreateOutcome(p, created)
       IN /\ users' = created.users
          /\ u' = [u EXCEPT ![p] = out.u]
          /\ resp' = [resp EXCEPT ![p] = out.resp]
  /\ pc' = [pc EXCEPT ![p] = "done"]
  /\ UNCHANGED <<userRepository, writes, returned, jar, nreq, req, hdr, uid>>

\* the login check without the password comparison
CredentialsRejected_NoPassword(found, password) ==
  found.err # ""

\* err != nil || !u.ComparePasswords(req.Password)
CredentialsRejected(found, password) ==
  found.err # "" \/ ~ComparePasswords(found.u, password)

\* the session saved without the user's ID
SetUserID_Unset(values, id) ==
  values

\* session.Values["user_id"] = u.ID
SetUserID(values, id) ==
  [k \in DOMAIN values \cup {"user_id"} |-> IF k = "user_id" THEN id ELSE values[k]]

\* handleSessionsCreate: the response; nothing is written on success, so
\* the status is the default one and the body is empty
SessionsCreateResponse(p, request, tbl) ==
  LET found == FindByEmail(request.email, tbl) IN
  IF CredentialsRejected(found, request.password)
    THEN respondWithError(p, StatusUnauthorized, errIncorrectEmailOrPassword)
    ELSE LET session == Get(request.cookie) IN
         IF session.err
           THEN respondWithError(p, StatusInternalServerError, errInternalServerError)
           ELSE Written(p, StatusOK, EmptyValues,
                        Encode(SetUserID(session.values, found.u.id)),
                        "handleSessionsCreate")

handleSessionsCreate(p) ==
  /\ pc[p] = "handleSessionsCreate"
  /\ LET out == SessionsCreateResponse(p, req[p], users) IN
       /\ resp' = [resp EXCEPT ![p] = out]
       /\ jar' = IF out.cookie.present
                   THEN jar \cup {[cookie |-> out.cookie, email |-> req[p].email,
                                   password |-> req[p].password]}
                   ELSE jar
  /\ pc' = [pc EXCEPT ![p] = "done"]
  /\ UNCHANGED <<users, userRepository, writes, returned, nreq, req, hdr, uid, u>>

\* getMyUserInfo: the user AuthenticationUser put in the context, as JSON
getMyUserInfo(p, ctxKeyUser) ==
  Written(p, StatusOK, ctxKeyUser, NoCookie, "getMyUserInfo")

\* AuthenticationUser from the repository lookup on, and the handler that
\* c.Next() runs
AuthenticationUserFind(p) ==
  /\ pc[p] = "Find"
  /\ LET found == Find(uid[p], users) IN
       IF found.err # ""
         THEN /\ resp' = [resp EXCEPT ![p] =
                   respondWithError(p, StatusUnauthorized, errNotAuthenticated)]
              /\ u' = u
         ELSE /\ u' = [u EXCEPT ![p] = found.u]
              /\ resp' = [resp EXCEPT ![p] = getMyUserInfo(p, found.u)]
  /\ pc' = [pc EXCEPT ![p] = "done"]
  /\ UNCHANGED <<users, userRepository, writes, returned, jar, nreq, req, hdr, uid>>

(* --------------------------- specification ----------------------------- *)

Next ==
  \E p \in Procs :
    \/ SetRequestID(p)
    \/ AuthenticationUser(p)
    \/ UserCheck(p)
    \/ UserAssign(p)
    \/ UserReturn(p)
    \/ handleUsersCreate(p)
    \/ handleSessionsCreate(p)
    \/ AuthenticationUserFind(p)
    \/ Return(p)

Spec == Init /\ [][Next]_vars

(* ------------------------------- claims -------------------------------- *)

Whoami(p) == pc[p] = "done" /\ req[p].kind = "GET /private/whoami"
Register(p) == pc[p] = "done" /\ req[p].kind = "POST /users"
Login(p) == pc[p] = "done" /\ req[p].kind = "POST /sessions"

\* a cookie a login handed out, with one byte changed
Tampered(cookie) ==
  \E j \in jar, k \in TamperKinds : cookie = Tamper(j.cookie, k)

C2_TamperedCookieIs401 ==
  \A p \in Procs :
    (Whoami(p) /\ Tampered(req[p].cookie)) =>
      /\ resp[p].status = StatusUnauthorized
      /\ resp[p].body = ErrorBody(errNotAuthenticated)

\* what C3 says of the response of a login that found the table as tbl
LoginAsClaimed(request, response, tbl) ==
  LET found == FindByEmail(request.email, tbl) IN
  IF found.err # "" \/ ~ComparePasswords(found.u, request.password)
    THEN /\ response.status = StatusUnauthorized
         /\ response.body = ErrorBody(errIncorrectEmailOrPassword)
         /\ ~response.cookie.present
    ELSE /\ response.status = StatusOK
         /\ response.body = EmptyValues
         /\ response.cookie.present
         /\ Get(response.cookie) = [err |-> FALSE, values |-> [user_id |-> found.u.id]]

\* C3: for every POST /sessions request: if no user has the given email or
\* the password does not match that user's stored hash, the response is 401
\* "incorrect email or password" and no cookie is attached; otherwise a
\* session holding exactly that user's ID is saved as a response cookie and
\* the response is 200 with no body.
C3_LoginOutcome ==
  [][\A p \in Procs :
       (pc[p] = "handleSessionsCreate" /\ pc'[p] = "done") =>
         LoginAsClaimed(req[p], resp'[p], users)]_vars

\* C4: once a login with the correct credentials was answered 200 with a
\* session cookie, every later whoami that presents that cookie is answered
\* 200 with that user's record (the email the login presented), whatever
\* registrations and logins happened in between; a whoami without a cookie
\* is answered 401 "not authenticated".
C4_CookieKeepsWorking ==
  \A p \in Procs :
    Whoami(p) =>
      /\ \A j \in jar :
           j.cookie = req[p].cookie =>
             /\ resp[p].status = StatusOK
             /\ resp[p].body.email = j.email
             /\ resp[p].body.id = j.cookie.payload.user_id
      /\ ~req[p].cookie.present =>
           /\ resp[p].status = StatusUnauthorized
           /\ resp[p].body = ErrorBody(errNotAuthenticated)

\* C4's case: user 1's cookie answered with user 1's record while a second
\* user exists
C4_Witness ==
  \E p \in Procs :
    /\ Whoami(p)
    /\ \E j \in jar : j.cookie = req[p].cookie
    /\ resp[p].status = StatusOK
    /\ resp[p].body.id = 1
    /\ Len(users) = 2

\* C5: a registration of an email that was registered before it arrived is
\* answered 400 "bad request"; a registration with a valid email and
\* password is refused only when the email is taken, so the first one is
\* answered 200; and the users table never holds two records of one email.
C5_RegisterTwice ==
  /\ \A p \in Procs :
       Register(p) =>
         /\ req[p].seenRow =>
              /\ resp[p].status = StatusBadRequest
              /\ resp[p].body = ErrorBody(errBadRequest)
         /\ (Validate(Bind(req[p])) /\ resp[p].status # StatusOK) =>
              /\ resp[p].status = StatusBadRequest
              /\ req[p].email \in TableEmails(users)
              /\ u[p].id = 0
         /\ resp[p].status = StatusOK =>
              /\ ~req[p].seenRow
              /\ u[p].id \in 1..Len(users)
              /\ users[u[p].id].email = req[p].email
  /\ \A i, j \in 1..Len(users) : users[i].email = users[j].email => i = j

\* C5's case: the second registration of an email, answered 400
C5_Witness ==
  \E p \in Procs :
    /\ Register(p)
    /\ req[p].seenRow
    /\ Validate(Bind(req[p]))
    /\ resp[p].status = StatusBadRequest

\* two registrations of one email, both valid, each received before the
\* other's insert
Racing(p, q) ==
  /\ p # q
  /\ Register(p) /\ Register(q)
  /\ req[p].email = req[q].email
  /\ Validate(Bind(req[p])) /\ Validate(Bind(req[q]))
  /\ ~req[p].seenRow /\ ~req[q].seenRow

\* C6: of two concurrent valid registrations of the same email exactly one
\* is answered 200 and the other 400.
C6_ConcurrentRegister ==
  \A p, q \in Procs :
    Racing(p, q) =>
      \/ resp[p].status = StatusOK /\ resp[q].status = StatusBadRequest
      \/ resp[p].status = StatusBadRequest /\ resp[q].status = StatusOK

\* C6's case: both racing registrations answered
C6_Witness ==
  \E p, q \in Procs : Racing(p, q) /\ req[p].password # req[q].password

\* C7: no response carries a plaintext password: a successful POST /users
\* serializes the user after its password field was cleared, and the record
\* whoami returns has an empty password field.
C7_NoPlaintextPassword ==
  \A p \in Procs :
    pc[p] = "done" =>
      /\ \A k \in DOMAIN resp[p].body \ {"id"} : resp[p].body[k] \notin Passwords
      /\ (Register(p) /\ resp[p].status = StatusOK) =>
           /\ u[p].password = ""
           /\ "password" \notin DOMAIN resp[p].body
           /\ resp[p].body.encrypted_password # ""
      /\ (Whoami(p) /\ resp[p].status = StatusOK) => resp[p].body.password = ""

\* C7's case: a registration answered 200
C7_Witness ==
  \E p \in Procs :
    /\ Register(p)
    /\ resp[p].status = StatusOK
    /\ req[p].password \in Passwords

\* C8: every response carries the X-Request-ID header, the error responses
\* of aborted requests included.
C8_RequestIDOnEveryResponse ==
  \A p \in Procs :
    resp[p].status # 0 => "X-Request-ID" \in resp[p].headers

\* C8's case: a request the authentication middleware aborted
C8_Witness ==
  \E p \in Procs :
    /\ pc[p] = "done"
    /\ resp[p].ran = ""
    /\ resp[p].status = StatusUnauthorized
    /\ "X-Request-ID" \in resp[p].headers

\* C9: a POST /users whose password is shorter than 6 characters is
\* answered 400 "bad request" and creates no record: the handler's user got
\* no id, and no row of the table holds the digest of such a password.
C9_ShortPasswordRejected ==
  /\ \A p \in Procs :
       (Register(p) /\ Len(req[p].password) < MinPasswordLength) =>
         /\ resp[p].status = StatusBadRequest
         /\ resp[p].body = ErrorBody(errBadRequest)
         /\ u[p].id = 0
  /\ \A i \in 1..Len(users), pw \in Passwords :
       Len(pw) < MinPasswordLength => ~ComparePasswords(RowUser(users, i), pw)

\* C9's case: a short password for an email nobody registered
C9_Witness ==
  \E p \in Procs :
    /\ Register(p)
    /\ Len(req[p].password) < MinPasswordLength
    /\ IsEmail(req[p].email)
    /\ req[p].email \notin TableEmails(users)

\* C10: Store.userRepository is assigned at most once, and every call of
\* Store.User() returns the same instance.
C10_OneRepository ==
  /\ writes <= 1
  /\ Cardinality(returned) <= 1

====
